---------------------------- MODULE Spec2Model ----------------------------
(***************************************************************************)
(* Model of app.py, the interactive accounting mind-map: the fixed account *)
(* hierarchy (LEAF_NODES, TREE, ROOTS), the roll-up helper total, and the  *)
(* Dash callback update_graph_and_totals that recomputes every parent      *)
(* value and the per-node size entries of the mind-map stylesheet.         *)
(***************************************************************************)
EXTENDS Integers, Sequences, FiniteSets

VARIABLES
    leaf_vals,              \* values of the 14 leaf sliders (the callback's Inputs)
    computed_vals,          \* values of the disabled "computed" sliders (Outputs)
    max_val,                \* local max_val of the last completed call
    stylesheet,             \* the mind-map's stylesheet property (Output)
    graph_panel_stylesheet, \* graph_panel.children[0].stylesheet, held by the server
    status,                 \* "none" before any call, then "ok" or the exception raised
    err_key,                \* the key a KeyError names, "" otherwise
    n_computed,             \* how many computed nodes the last call totalled
    omitted,                \* the leaf whose value the last caller left out, "" if none
    calls                   \* number of callback invocations after the page load

vars == <<leaf_vals, computed_vals, max_val, stylesheet, graph_panel_stylesheet,
          status, err_key, n_computed, omitted, calls>>

\* ------------------------------------------------------------------ bounds
\* Callback invocations explored after the one the page load makes.
MaxCalls == 2

\* ------------------------------------------------------------- data model
\* Keys of LEAF_NODES in declaration order (a Python dict iterates in it).
LEAF_NAMES ==
    <<"Cash", "AR", "Inventory", "PPE", "Intangibles",
      "AP", "NotesPayable", "LongTermDebt",
      "OperatingIncome", "NonOperatingIncome",
      "COGS", "SGA", "Depreciation", "InterestExp">>

LEAF_NODES ==
    [Cash |-> 10000, AR |-> 12000, Inventory |-> 8000, PPE |-> 40000,
     Intangibles |-> 5000,
     AP |-> 7000, NotesPayable |-> 6000, LongTermDebt |-> 20000,
     OperatingIncome |-> 15000, NonOperatingIncome |-> 3000,
     COGS |-> 9000, SGA |-> 4000, Depreciation |-> 2000, InterestExp |-> 1000]

\* TREE with Inventory listed under NonCurrentAssets as well.
TREE_shared_child ==
    [CurrentAssets |-> <<"Cash", "AR", "Inventory">>,
     NonCurrentAssets |-> <<"PPE", "Intangibles", "Inventory">>,
     Assets |-> <<"CurrentAssets", "NonCurrentAssets">>,
     CurrentLiabilities |-> <<"AP", "NotesPayable">>,
     NonCurrentLiabilities |-> <<"LongTermDebt">>,
     Liabilities |-> <<"CurrentLiabilities", "NonCurrentLiabilities">>,
     Income |-> <<"OperatingIncome", "NonOperatingIncome">>,
     Expenses |-> <<"COGS", "SGA", "Depreciation", "InterestExp">>]

TREE ==
    [CurrentAssets |-> <<"Cash", "AR", "Inventory">>,
     NonCurrentAssets |-> <<"PPE", "Intangibles">>,
     Assets |-> <<"CurrentAssets", "NonCurrentAssets">>,
     CurrentLiabilities |-> <<"AP", "NotesPayable">>,
     NonCurrentLiabilities |-> <<"LongTermDebt">>,
     Liabilities |-> <<"CurrentLiabilities", "NonCurrentLiabilities">>,
     Income |-> <<"OperatingIncome", "NonOperatingIncome">>,
     Expenses |-> <<"COGS", "SGA", "Depreciation", "InterestExp">>]

ROOTS == <<"Assets", "Liabilities", "Income", "Expenses">>

Range(s) == {s[i] : i \in DOMAIN s}

all_nodes == DOMAIN LEAF_NODES \cup DOMAIN TREE \cup {"Equity", "Equation"}

\* Every node name in the order Python's sorted() puts strings (code points).
SORTED_NAMES ==
    <<"AP", "AR", "Assets", "COGS", "Cash", "CurrentAssets", "CurrentLiabilities",
      "Depreciation", "Equation", "Equity", "Expenses", "Income", "Intangibles",
      "InterestExp", "Inventory", "Liabilities", "LongTermDebt",
      "NonCurrentAssets", "NonCurrentLiabilities", "NonOperatingIncome",
      "NotesPayable", "OperatingIncome", "PPE", "SGA">>

InSet(S, x) == x \in S

sorted(S) == SelectSeq(SORTED_NAMES, LAMBDA x : InSet(S, x))

\* computed_nodes without the "- {"Equation"}".
computed_nodes_with_equation == sorted(all_nodes \ DOMAIN LEAF_NODES)

computed_nodes == sorted((all_nodes \ DOMAIN LEAF_NODES) \ {"Equation"})

\* Slider(min=0, max=200_000, step=1_000)
SLIDER_MIN == 0
SLIDER_MAX == 200000
SLIDER_STEP == 1000

\* The base stylesheet of the Cytoscape component: the generic node rule (50px
\* wide and high), the six colour rules and the edge rule, none of which names
\* a node id or sets a pixel size (px 0).
BASE_NODE_PX == 50

Rule(selector, id, px) == [selector |-> selector, id |-> id, px |-> px]

BASE_STYLESHEET ==
    <<Rule("node", "", BASE_NODE_PX), Rule(".center", "", 0), Rule(".asset", "", 0),
      Rule(".liability", "", 0), Rule(".equity", "", 0), Rule(".income", "", 0),
      Rule(".expense", "", 0), Rule("edge", "", 0)>>

\* ---------------------------------------------------------------- helpers
RECURSIVE sum(_)
sum(s) == IF s = <<>> THEN 0 ELSE Head(s) + sum(Tail(s))

RECURSIVE concat(_)
concat(ss) == IF ss = <<>> THEN <<>> ELSE Head(ss) \o concat(Tail(ss))

\* max() of a non-empty list.
RECURSIVE max(_)
max(s) ==
    IF Len(s) = 1 THEN s[1]
    ELSE LET m == max(Tail(s)) IN IF s[1] >= m THEN s[1] ELSE m

Min2(a, b) == IF a <= b THEN a ELSE b

\* vals[-n:] — the last n elements, or all of them when there are fewer.
last_n(vals, n) ==
    LET k == Min2(n, Len(vals))
    IN  SubSeq(vals, Len(vals) - k + 1, Len(vals))

\* dict(zip(keys, values)) — pairs up to the shorter of the two.
LEAF_INDEX ==
    [name \in DOMAIN LEAF_NODES |->
        CHOOSE i \in DOMAIN LEAF_NAMES : LEAF_NAMES[i] = name]

dict_zip(keys, values) ==
    LET k == Min2(Len(keys), Len(values))
    IN  [name \in {keys[i] : i \in 1..k} |-> values[LEAF_INDEX[name]]]

\* f"{n/d:.0f}" for the exact quotient n/d: round to nearest, ties to even.
RoundHalfEven(n, d) ==
    LET nn == IF d < 0 THEN -n ELSE n
        dd == IF d < 0 THEN -d ELSE d
        q  == nn \div dd
        r  == nn - q * dd
    IN  IF 2 * r < dd THEN q
        ELSE IF 2 * r > dd THEN q + 1
        ELSE IF q % 2 = 0 THEN q ELSE q + 1

\* ------------------------------------------------- update_graph_and_totals
\* total with the first child of every parent left out of the sum.
RECURSIVE total_skip_first(_, _)
total_skip_first(node, lv) ==
    IF node \in DOMAIN LEAF_NODES THEN lv[node]
    ELSE IF node \in DOMAIN TREE
        THEN sum([i \in 1..(Len(TREE[node]) - 1) |->
                    total_skip_first(TREE[node][i + 1], lv)])
    ELSE IF node = "Equity"
        THEN LET assets      == total_skip_first("Assets", lv)
                 liabilities == total_skip_first("Liabilities", lv)
                 income      == total_skip_first("Income", lv)
                 expenses    == total_skip_first("Expenses", lv)
             IN  assets + income - expenses - liabilities
    ELSE 0

\* total with Expenses added to Equity instead of subtracted.
RECURSIVE total_plus_expenses(_, _)
total_plus_expenses(node, lv) ==
    IF node \in DOMAIN LEAF_NODES THEN lv[node]
    ELSE IF node \in DOMAIN TREE
        THEN sum([i \in 1..Len(TREE[node]) |->
                    total_plus_expenses(TREE[node][i], lv)])
    ELSE IF node = "Equity"
        THEN LET assets      == total_plus_expenses("Assets", lv)
                 liabilities == total_plus_expenses("Liabilities", lv)
                 income      == total_plus_expenses("Income", lv)
                 expenses    == total_plus_expenses("Expenses", lv)
             IN  assets + income + expenses - liabilities
    ELSE 0

\* total with Equity rolled up like a second name for Assets.
RECURSIVE total_equity_as_assets(_, _)
total_equity_as_assets(node, lv) ==
    IF node \in DOMAIN LEAF_NODES THEN lv[node]
    ELSE IF node \in DOMAIN TREE
        THEN sum([i \in 1..Len(TREE[node]) |->
                    total_equity_as_assets(TREE[node][i], lv)])
    ELSE IF node = "Equity"
        THEN total_equity_as_assets("Assets", lv)
    ELSE 0

\* The roll-up helper, on a snapshot lv that holds every leaf it reads (the
\* lookups that raise KeyError are reads, raises and key_error below).
RECURSIVE total(_, _)
total(node, lv) ==
    IF node \in DOMAIN LEAF_NODES THEN lv[node]
    ELSE IF node \in DOMAIN TREE
        THEN sum([i \in 1..Len(TREE[node]) |-> total(TREE[node][i], lv)])
    ELSE IF node = "Equity"
        THEN LET assets      == total("Assets", lv)
                 liabilities == total("Liabilities", lv)
                 income      == total("Income", lv)
                 expenses    == total("Expenses", lv)
             IN  assets + income - expenses - liabilities
    ELSE 0

\* The keys of leaf_vals that total(node) subscripts, in evaluation order.
RECURSIVE reads(_)
reads(node) ==
    IF node \in DOMAIN LEAF_NODES THEN <<node>>
    ELSE IF node \in DOMAIN TREE
        THEN concat([i \in 1..Len(TREE[node]) |-> reads(TREE[node][i])])
    ELSE IF node = "Equity"
        THEN reads("Assets") \o reads("Liabilities") \o reads("Income")
             \o reads("Expenses")
    ELSE <<>>

READS == [node \in all_nodes |-> reads(node)]

\* total(node) raises KeyError when leaf_vals[...] meets a key lv lacks.
raises(node, lv) == \E i \in DOMAIN READS[node] : READS[node][i] \notin DOMAIN lv

key_error(node, lv) ==
    LET r == READS[node]
        i == CHOOSE j \in DOMAIN r :
                 /\ r[j] \notin DOMAIN lv
                 /\ \A k \in 1..(j - 1) : r[k] \in DOMAIN lv
    IN  r[i]

\* The dict comprehension over computed_nodes: the 1-based position of the
\* first node whose total raises, 0 when none does.
first_raising(lv) ==
    LET bad == {i \in DOMAIN computed_nodes : raises(computed_nodes[i], lv)}
    IN  IF bad = {} THEN 0 ELSE CHOOSE i \in bad : \A j \in bad : i <= j

compute_all(lv) == [nid \in Range(computed_nodes) |-> total(nid, lv)]

\* max_of over the leaf values alone.
max_of_leaves(lv, cv) ==
    LET leaf_keys == SelectSeq(LEAF_NAMES, LAMBDA n : InSet(DOMAIN lv, n))
        m         == max([i \in 1..Len(leaf_keys) |-> lv[leaf_keys[i]]])
    IN  IF m = 0 THEN 1 ELSE m

\* max_of without the "or 1".
max_of_no_floor(lv, cv) ==
    LET leaf_keys == SelectSeq(LEAF_NAMES, LAMBDA n : InSet(DOMAIN lv, n))
    IN  max([i \in 1..Len(leaf_keys) |-> lv[leaf_keys[i]]]
            \o [i \in 1..Len(computed_nodes) |-> cv[computed_nodes[i]]])

\* all_values = leaf values + computed values; max_val = max(all_values) or 1
max_of(lv, cv) ==
    LET leaf_keys  == SelectSeq(LEAF_NAMES, LAMBDA n : InSet(DOMAIN lv, n))
        all_values == [i \in 1..Len(leaf_keys) |-> lv[leaf_keys[i]]]
                      \o [i \in 1..Len(computed_nodes) |-> cv[computed_nodes[i]]]
        m          == max(all_values)
    IN  IF m = 0 THEN 1 ELSE m

\* v / max_val as the exact fraction <<numerator, denominator>>.
weight(v, m) == <<v, m>>

\* 30 + (v / max_val) * 70, printed with "{size:.0f}": the exact quotient
\* rounded to nearest, ties to even. The float the code rounds differs from
\* the exact quotient only in which way some exact ties fall (by 1px, for a
\* negative v); on every value the bounded model reaches the two agree.
size_px(v, m) == RoundHalfEven(30 * m + 70 * v, m)

\* The entries appended for {**leaf_vals, **computed_vals}: the leaves in
\* LEAF_NODES order, then the computed nodes in computed_nodes order (the two
\* key sets are disjoint, so the merged dict keeps every key of both).
merged_keys(lv, cv) ==
    SelectSeq(LEAF_NAMES, LAMBDA n : InSet(DOMAIN lv, n))
    \o SelectSeq(computed_nodes, LAMBDA n : InSet(DOMAIN cv \ DOMAIN lv, n))

merged_value(lv, cv, n) == IF n \in DOMAIN cv THEN cv[n] ELSE lv[n]

size_rules(lv, cv, m) ==
    LET ks == merged_keys(lv, cv)
    IN  [i \in 1..Len(ks) |->
            Rule("node[id]", ks[i], size_px(merged_value(lv, cv, ks[i]), m))]

\* The panel's list when the callback appends to it without copying.
panel_aliased(panel, appended) == panel \o appended

\* stylesheet = graph_panel.children[0].stylesheet[:] copies the list, so the
\* appends that follow leave the panel's own list as it was.
panel_after_append(panel, appended) == panel

\* One invocation of the callback with positional values vals.
update_graph_and_totals(vals) ==
    LET lv  == dict_zip(LEAF_NAMES, last_n(vals, Len(LEAF_NAMES)))
        bad == first_raising(lv)
    IN  IF bad # 0
        THEN /\ status' = "KeyError"
             /\ err_key' = key_error(computed_nodes[bad], lv)
             /\ n_computed' = bad - 1
             /\ UNCHANGED <<leaf_vals, computed_vals, max_val, stylesheet,
                            graph_panel_stylesheet>>
        ELSE IF max_of(lv, compute_all(lv)) = 0
        THEN \* v / max_val raises ZeroDivisionError on the first node
             /\ status' = "ZeroDivisionError"
             /\ err_key' = ""
             /\ n_computed' = Len(computed_nodes)
             /\ UNCHANGED <<leaf_vals, computed_vals, max_val, stylesheet,
                            graph_panel_stylesheet>>
        ELSE LET cv    == compute_all(lv)
                 m     == max_of(lv, cv)
                 rules == size_rules(lv, cv, m)
             IN  /\ status' = "ok"
                 /\ err_key' = ""
                 /\ n_computed' = Len(computed_nodes)
                 /\ leaf_vals' = lv
                 /\ computed_vals' = cv
                 /\ max_val' = m
                 /\ stylesheet' = graph_panel_stylesheet \o rules
                 /\ graph_panel_stylesheet' =
                        panel_after_append(graph_panel_stylesheet, rules)

\* ------------------------------------------------------------- inputs
snapshot(lv) == [i \in 1..Len(LEAF_NAMES) |-> lv[LEAF_NAMES[i]]]

drop(s, i) == SubSeq(s, 1, i - 1) \o SubSeq(s, i + 1, Len(s))

\* Slider positions a drag is modelled to end on: both ends and a mark.
DragValues == {SLIDER_MIN, 50 * SLIDER_STEP, SLIDER_MAX}

AllZero == [n \in DOMAIN LEAF_NODES |-> 0]

RaisedPPE == [LEAF_NODES EXCEPT !["PPE"] = 240000]

Skewed == [AllZero EXCEPT !["InterestExp"] = 3 * SLIDER_STEP, !["Cash"] = SLIDER_STEP]

Snapshots == {LEAF_NODES, AllZero, RaisedPPE, Skewed}

\* ------------------------------------------------------------ state machine
Init ==
    /\ leaf_vals = LEAF_NODES
    /\ computed_vals = [nid \in Range(computed_nodes) |-> 0]
    /\ max_val = 1
    /\ stylesheet = BASE_STYLESHEET
    /\ graph_panel_stylesheet = BASE_STYLESHEET
    /\ status = "none"
    /\ err_key = ""
    /\ n_computed = 0
    /\ omitted = ""
    /\ calls = 0

\* Dash fires the callback once when the page loads, with the sliders' values.
PageLoad ==
    /\ status = "none"
    /\ update_graph_and_totals(snapshot(leaf_vals))
    /\ omitted' = ""
    /\ UNCHANGED calls

\* The user drags one leaf slider; the callback runs on the new values.
SliderDrag(nid, v) ==
    /\ status # "none"
    /\ calls < MaxCalls
    /\ leaf_vals[nid] # v
    /\ update_graph_and_totals(snapshot([leaf_vals EXCEPT ![nid] = v]))
    /\ omitted' = ""
    /\ calls' = calls + 1

\* A caller invokes the function with a complete snapshot of its own.
DirectCall(lv) ==
    /\ status # "none"
    /\ calls < MaxCalls
    /\ update_graph_and_totals(snapshot(lv))
    /\ omitted' = ""
    /\ calls' = calls + 1

\* A caller invokes the function with the value of one leaf left out.
OmittedCall(i) ==
    /\ status # "none"
    /\ calls < MaxCalls
    /\ update_graph_and_totals(drop(snapshot(leaf_vals), i))
    /\ omitted' = LEAF_NAMES[i]
    /\ calls' = calls + 1

Next ==
    \/ PageLoad
    \/ \E nid \in DOMAIN LEAF_NODES, v \in DragValues : SliderDrag(nid, v)
    \/ \E lv \in Snapshots : DirectCall(lv)
    \/ \E i \in 1..Len(LEAF_NAMES) : OmittedCall(i)

Spec == Init /\ [][Next]_vars

\* ------------------------------------------------------------- properties
Leaves == DOMAIN LEAF_NODES

Derived == DOMAIN TREE

Accounts == Leaves \cup Derived \cup {"Equity"}

value(n) == IF n \in Leaves THEN leaf_vals[n] ELSE computed_vals[n]

Children(n) == IF n \in DOMAIN TREE THEN Range(TREE[n]) ELSE {}

RECURSIVE Below(_, _)
Below(S, k) ==
    IF k = 0 THEN S
    ELSE Below(S \cup UNION {Children(n) : n \in S}, k - 1)

\* Every account below n in TREE (n itself only if it lies on a cycle).
Descendants == [n \in all_nodes |-> Below(Children(n), Cardinality(all_nodes))]

Ancestors(n) == {a \in Derived : n \in Descendants[a]}

Parents(n) == {a \in Derived : \E i \in DOMAIN TREE[a] : TREE[a][i] = n}

LeafSum(S) == sum([i \in 1..Len(LEAF_NAMES) |->
                     IF LEAF_NAMES[i] \in S THEN leaf_vals[LEAF_NAMES[i]] ELSE 0])

NodeRules == SelectSeq(stylesheet, LAMBDA r : r.selector = "node[id]")

RuleOf(n) == {i \in DOMAIN NodeRules : NodeRules[i].id = n}

InUnit(w) == w[2] > 0 /\ 0 <= w[1] /\ w[1] <= w[2]

\* C1: after update_graph_and_totals has run, every Derived account of TREE
\* equals the sum of the values of its immediate children, and so every
\* Derived account equals the sum of the leaves in its subtree.
C1_RollUp ==
    status = "ok" =>
        \A a \in Derived :
            /\ computed_vals[a] =
                   sum([i \in 1..Len(TREE[a]) |-> value(TREE[a][i])])
            /\ computed_vals[a] = LeafSum(Descendants[a])

C1_Witness ==
    /\ status = "ok"
    /\ leaf_vals # LEAF_NODES
    /\ computed_vals["NonCurrentAssets"] > 0
    /\ computed_vals["CurrentAssets"] > computed_vals["NonCurrentAssets"]
    /\ computed_vals["Assets"] > computed_vals["CurrentAssets"]

\* C2: the Equity value returned equals Assets + Income - Expenses -
\* Liabilities of the same call; Equity is no key of TREE (it is not summed
\* from children) and no child of any Derived account.
C2_Balancing ==
    /\ "Equity" \notin Derived
    /\ \A a \in Derived : "Equity" \notin Range(TREE[a])
    /\ status = "ok" =>
           computed_vals["Equity"] =
               computed_vals["Assets"] + computed_vals["Income"]
               - computed_vals["Expenses"] - computed_vals["Liabilities"]

C2_Witness ==
    /\ status = "ok"
    /\ computed_vals["Expenses"] > 0
    /\ computed_vals["Liabilities"] > 0
    /\ computed_vals["Equity"] < 0

\* C3: for non-negative leaf values, the weight value / max_val of every
\* leaf, Derived account and Equity lies in [0, 1], and every emitted node
\* size lies between 30px and 100px.
C3_WeightBounds ==
    status = "ok" =>
        /\ \A n \in Accounts : InUnit(weight(value(n), max_val))
        /\ \A i \in DOMAIN NodeRules : NodeRules[i].px \in 30..100

\* C4: a call whose snapshot omits the value of one leaf fails with
\* MissingLeafValueError naming that leaf, after no partial computation.
C4_MissingLeaf ==
    omitted # "" =>
        /\ status = "MissingLeafValueError"
        /\ err_key = omitted
        /\ n_computed = 0

\* C5: after any sequence of earlier calls, the totals and the stylesheet on
\* display are exactly those a first call with the same snapshot returns
\* (base stylesheet plus one entry per account), and the base stylesheet
\* held by graph_panel is the one it was built with.
C5_NoDrift ==
    status # "none" =>
        LET cv == compute_all(leaf_vals)
            m  == max_of(leaf_vals, cv)
        IN  /\ graph_panel_stylesheet = BASE_STYLESHEET
            /\ computed_vals = cv
            /\ stylesheet = BASE_STYLESHEET \o size_rules(leaf_vals, cv, m)
            /\ Len(stylesheet) = Len(BASE_STYLESHEET) + Cardinality(Accounts)

C5_Witness ==
    /\ status = "ok"
    /\ calls >= 2
    /\ leaf_vals = LEAF_NODES

\* C6 (as stated): once PPE is raised from 40000 to 240000 on the reference
\* values, PPE is the account with the maximum value and its weight is 1.
C6_PPEIsMax ==
    (status = "ok" /\ leaf_vals = RaisedPPE) =>
        /\ max_val = leaf_vals["PPE"]
        /\ weight(value("PPE"), max_val)[1] = weight(value("PPE"), max_val)[2]

\* C6 (amended): raising PPE from 40000 to 240000 on the reference values
\* leaves Assets the account with the maximum value (75000 before, 275000
\* after), so the weight of Assets stays 1 and that of PPE becomes
\* 240000/275000; every account other than PPE, NonCurrentAssets, Assets
\* and Equity keeps its value, so its weight shrinks from value/75000 to
\* value/275000.
C6_AssetsIsMax ==
    [][ (status = "ok" /\ leaf_vals = LEAF_NODES
         /\ status' = "ok" /\ leaf_vals' = RaisedPPE) =>
            /\ max_val = computed_vals["Assets"]
            /\ max_val = 75000
            /\ max_val' = computed_vals'["Assets"]
            /\ max_val' = 275000
            /\ leaf_vals'["PPE"] = 240000
            /\ leaf_vals'["PPE"] < max_val'
            /\ \A n \in Accounts \ {"PPE", "NonCurrentAssets", "Assets", "Equity"} :
                   LET v  == IF n \in Leaves THEN leaf_vals[n] ELSE computed_vals[n]
                       vp == IF n \in Leaves THEN leaf_vals'[n] ELSE computed_vals'[n]
                   IN  /\ vp = v
                       /\ v > 0
                       /\ weight(v, max_val) = <<v, 75000>>
                       /\ weight(vp, max_val') = <<v, 275000>>
       ]_vars

C6_Witness ==
    /\ status = "ok"
    /\ calls = 1
    /\ leaf_vals = RaisedPPE
    /\ max_val = 275000
    /\ \E i \in DOMAIN NodeRules : NodeRules[i].id = "PPE" /\ NodeRules[i].px = 91

\* C7: with every leaf at 0 the call completes (no call ever ends in a
\* division by zero), every Derived value and Equity are 0, max_val is 1,
\* and every account's weight is 0, every node size 30px.
C7_AllZero ==
    /\ status # "ZeroDivisionError"
    /\ (status = "ok" /\ leaf_vals = AllZero) =>
           /\ \A n \in DOMAIN computed_vals : computed_vals[n] = 0
           /\ max_val = 1
           /\ \A n \in Accounts : weight(value(n), max_val)[1] = 0
           /\ Len(NodeRules) = Cardinality(Accounts)
           /\ \A i \in DOMAIN NodeRules : NodeRules[i].px = 30

C7_Witness ==
    /\ status = "ok"
    /\ calls >= 1
    /\ leaf_vals = AllZero

\* C8: a computed value is returned for each of the 8 Derived accounts and
\* Equity and for nothing else, exactly one size entry is emitted for each
\* of the 23 accounts, and "Equation" gets neither.
C8_KeySets ==
    /\ DOMAIN computed_vals = Derived \cup {"Equity"}
    /\ Cardinality(DOMAIN computed_vals) = 9
    /\ "Equation" \notin DOMAIN computed_vals
    /\ status = "ok" =>
           /\ Len(NodeRules) = 23
           /\ \A n \in Accounts : Cardinality(RuleOf(n)) = 1
           /\ RuleOf("Equation") = {}
           /\ Cardinality(Leaves) = 14 /\ Cardinality(Derived) = 8

C8_Witness ==
    /\ status = "ok"
    /\ calls >= 1
    /\ Len(stylesheet) = Len(BASE_STYLESHEET) + 23

\* C9: when one leaf is raised by d between two calls and every other leaf
\* is as it was, every ancestor of that leaf in TREE rises by d, Equity
\* rises by d for a leaf under Assets or Income and falls by d for one under
\* Liabilities or Expenses, and every other Derived value is unchanged.
C9_Frame ==
    [][ \A l \in Leaves :
          ( /\ status # "none" /\ status' = "ok"
            /\ leaf_vals'[l] > leaf_vals[l]
            /\ \A o \in Leaves \ {l} : leaf_vals'[o] = leaf_vals[o] ) =>
            LET d == leaf_vals'[l] - leaf_vals[l]
            IN  \A n \in DOMAIN computed_vals :
                    computed_vals'[n] - computed_vals[n] =
                        IF n \in Ancestors(l) THEN d
                        ELSE IF n = "Equity"
                            THEN IF Ancestors(l) \cap {"Assets", "Income"} # {}
                                 THEN d ELSE -d
                        ELSE 0
       ]_vars

C9_Witness ==
    /\ status = "ok"
    /\ calls = 1
    /\ leaf_vals = [LEAF_NODES EXCEPT !["LongTermDebt"] = SLIDER_MAX]
    /\ computed_vals["NonCurrentLiabilities"] = 200000
    /\ computed_vals["Liabilities"] = 213000
    /\ computed_vals["Equity"] = -136000
    /\ computed_vals["Assets"] = 75000

\* The hierarchy as a forest, from the literals alone.
Forest ==
    /\ \A a \in Derived : Range(TREE[a]) \subseteq Leaves \cup Derived
    /\ \A n \in all_nodes : n \notin Descendants[n]
    /\ \A n \in all_nodes : Cardinality(Parents(n)) <= 1
    /\ \A a \in Derived : Len(TREE[a]) = Cardinality(Range(TREE[a]))
    /\ {n \in Leaves \cup Derived : Parents(n) = {}} = Range(ROOTS)
    /\ Cardinality(Range(ROOTS)) = 4
    /\ \A l \in Leaves :
           Cardinality({r \in Range(ROOTS) : l \in Descendants[r]}) = 1
    /\ \A a \in Derived : "Equity" \notin Range(TREE[a])

\* C10: LEAF_NODES, TREE and ROOTS form a forest: every child is a leaf or a
\* TREE key, the relation is acyclic, no account has two parents, the
\* parentless accounts are exactly the four branch roots, every leaf lies
\* under exactly one branch root, and Equity is nobody's child; so the four
\* branch-root totals of a call add up to the sum of the leaf values.
C10_Forest ==
    /\ Forest
    /\ status = "ok" =>
           computed_vals["Assets"] + computed_vals["Liabilities"]
           + computed_vals["Income"] + computed_vals["Expenses"] = LeafSum(Leaves)

C10_Witness ==
    /\ status = "ok"
    /\ calls >= 1
    /\ \A l \in Leaves : leaf_vals[l] > 0
    /\ computed_vals["Assets"] + computed_vals["Liabilities"]
       + computed_vals["Income"] + computed_vals["Expenses"] = LeafSum(Leaves)

=============================================================================
